---- MODULE Spec2Model ----
(***************************************************************************)
(* Persistent homology over GF(2): the filtered simplicial complex, its    *)
(* boundary operator and the boundary-matrix reduction that pairs births   *)
(* with deaths.                                                            *)
(*                                                                         *)
(* Conventions.  A simplex is its ascending vertex sequence.  Positions    *)
(* in the complex are 1-based here (position p is index p-1 of the Rust    *)
(* vectors).  Option<T> is a sequence of length at most one: None is <<>>  *)
(* and Some(x) is <<x>>.  A filtration level is a natural number standing  *)
(* for the f64 level; only the order and the equality of levels are ever   *)
(* used by the engine.                                                     *)
(***************************************************************************)
EXTENDS Integers, Sequences, FiniteSets, TLC

VARIABLES
    points, max_dimension, threshold,   \* PointCloud and the Vietoris-Rips arguments
    simplices, levels,                  \* SimplicialComplex (sorted by level)
    table, intervals, sx, boundary,     \* locals of compute_intervals / remove_pivot_rows
    pc,                                 \* position of the computation
    err,                                \* the typed error returned, if any
    call, first,                        \* number of the call, result of the first call
    arg_simplices, arg_levels, found,   \* arguments of SimplicialComplex::new, result of index_of
    arg_elements, arg_size, arg_max_size, \* arguments of the combinatorics functions
    self_indices, self_is_first,        \* Combinations (the iterator)
    item, collected, polls,             \* last item of next(), items so far, calls after the end
    all_subsets,                        \* result of generate_subsets
    arg_matrix,                         \* argument of PointCloud::new
    shared_matrix, mutex,                 \* the shared matrix of pairwise_distances and its lock
    task, local_dists,                  \* position and local_dists of every row task
    writers, acquired                   \* bookkeeping: who wrote each cell, locks taken by each task

cloud == <<points, max_dimension, threshold>>

input == <<arg_simplices, arg_levels, found>>

comb == <<arg_elements, arg_size, arg_max_size, self_indices, self_is_first,
          item, collected, polls, all_subsets>>

par == <<arg_matrix, shared_matrix, mutex, task, local_dists, writers, acquired>>

complex == <<simplices, levels>>

vars == <<points, max_dimension, threshold, simplices, levels,
          table, intervals, sx, boundary, pc, err, call, first,
          arg_simplices, arg_levels, found,
          arg_elements, arg_size, arg_max_size, self_indices, self_is_first,
          item, collected, polls, all_subsets,
          arg_matrix, shared_matrix, mutex, task, local_dists, writers, acquired>>

(* ----------------------------- bounds ---------------------------------- *)

\* vertices are 0 .. NumVertices-1
NumVertices == 3

\* filtration levels of hand-built complexes are 0 .. MaxLevel
MaxLevel == 1

\* longest arbitrary (possibly not closed, possibly face-after-coface) input
MaxArbitrary == 2

\* longest closed input with one face moved behind its coface
MaxLate == 3

\* longest filtered complex
MaxSimplices == 7

\* point clouds have at most MaxPoints points
MaxPoints == 4

\* point coordinates are 0 .. GridMax
GridMax == 1

\* vertex lists handed to Simplex::new have at most MaxRaw vertices
MaxRaw == 2

\* SimplicialComplex::new is handed at most MaxInput simplices
MaxInput == 2

\* the small populations of the combinatorics functions have at most
\* MaxElements elements
MaxElements == 5

\* next() is called at most MaxPolls times after it first returned None
MaxPolls == 2

\* PointCloud::new is handed matrices of at most MaxRows rows
MaxRows == 3

\* and of at most MaxCols columns
MaxCols == 2

\* the guard of Combinations::new
TooLargeLimit == 10000000

\* f64::INFINITY, above every level of the model
INFINITY == 1000

(* ----------------------------- helpers --------------------------------- *)

None == <<>>

Some(x) == <<x>>

\* Result<T, E>
Ok(v) == [ok |-> TRUE, value |-> v]

Err(e) == [ok |-> FALSE, error |-> e]

Max(S) == CHOOSE m \in S : \A x \in S : x <= m

Range(s) == {s[k] : k \in 1..Len(s)}

\* all orders in which the elements of a hash set can be iterated
IterationOrders(S) ==
    {o \in [1..Cardinality(S) -> S] : \A a, b \in 1..Cardinality(S) : a # b => o[a] # o[b]}

Vertices == 0..(NumVertices - 1)

\* well-formed simplices: non-empty, strictly ascending
AllSimplices ==
    {s \in UNION {[1..k -> Vertices] : k \in 1..NumVertices} :
        \A a, b \in 1..Len(s) : a < b => s[a] < s[b]}

(* ------------------------------ Simplex -------------------------------- *)

\* Vec::retain(|x| *x != v)
Retain(vertices, v) == SelectSeq(vertices, LAMBDA x : x # v)

RECURSIVE InsertSorted(_, _)
InsertSorted(s, x) ==
    IF s = <<>> THEN <<x>>
    ELSE IF x < Head(s) THEN <<x>> \o s
    ELSE <<Head(s)>> \o InsertSorted(Tail(s), x)

RECURSIVE SortAscending(_)
SortAscending(s) ==
    IF s = <<>> THEN <<>> ELSE InsertSorted(SortAscending(Tail(s)), Head(s))

SimplexNewKeepsOrder(vertices) == vertices

\* Simplex::new: the vertices sorted ascending
SimplexNew(vertices) == SortAscending(vertices)

validateDuplicatesOnly(vertices) ==
    IF \E a, b \in 1..Len(vertices) : a < b /\ vertices[a] = vertices[b]
    THEN Err("InvalidSimplex")
    ELSE Ok(<<>>)

\* Simplex::validate: at least one vertex, no vertex twice
validate(vertices) ==
    IF vertices = <<>> THEN Err("InvalidSimplex")
    ELSE IF \E a, b \in 1..Len(vertices) : a < b /\ vertices[a] = vertices[b]
         THEN Err("InvalidSimplex")
         ELSE Ok(<<>>)

\* Chain::dim
dim(s) == Len(s) - 1

(* ------------------------- SimplicialComplex --------------------------- *)

\* the simplex -> index map of a complex: collecting (simplex, i) pairs into
\* a HashMap keeps the last position of a repeated simplex
index_of(S, simplex) ==
    IF \E p \in 1..Len(S) : S[p] = simplex
    THEN Some(Max({p \in 1..Len(S) : S[p] = simplex}))
    ELSE None

\* the loop over the vertices stops one vertex short
boundary_skips_last(S, p) ==
    LET s == S[p]
        face(v) == SimplexNew(Retain(s, v))
    IN  {index_of(S, face(v))[1] :
            v \in {w \in Range(SubSeq(s, 1, Len(s) - 1)) :
                      face(w) # <<>> /\ index_of(S, face(w)) # None}}

\* the codimension-1 faces of S[p] that the index map knows
boundary_of(S, p) ==
    LET s == S[p]
        face(v) == SimplexNew(Retain(s, v))
    IN  {index_of(S, face(v))[1] :
            v \in {w \in Range(s) : face(w) # <<>> /\ index_of(S, face(w)) # None}}

\* insertion before the pairs of equal level
RECURSIVE InsertBeforeTies(_, _)
InsertBeforeTies(paired, x) ==
    IF paired = <<>> THEN <<x>>
    ELSE IF x[2] <= paired[Len(paired)][2]
         THEN Append(InsertBeforeTies(SubSeq(paired, 1, Len(paired) - 1), x), paired[Len(paired)])
         ELSE Append(paired, x)

\* stable insertion of one (simplex, level) pair into a level-sorted list
RECURSIVE InsertByLevel(_, _)
InsertByLevel(paired, x) ==
    IF paired = <<>> THEN <<x>>
    ELSE IF x[2] < paired[Len(paired)][2]
         THEN Append(InsertByLevel(SubSeq(paired, 1, Len(paired) - 1), x), paired[Len(paired)])
         ELSE Append(paired, x)

\* the pairs lo..hi of `paired` inserted one after the other into `sorted`
RECURSIVE InsertRun(_, _, _, _)
InsertRun(sorted, paired, lo, hi) ==
    IF lo > hi THEN sorted
    ELSE IF lo = hi THEN InsertByLevel(sorted, paired[lo])
    ELSE LET left == InsertRun(sorted, paired, lo, (lo + hi) \div 2)
         IN  IF Len(left) = 0 THEN left
             ELSE InsertRun(left, paired, (lo + hi) \div 2 + 1, hi)

SortByLevel(paired) == InsertRun(<<>>, paired, 1, Len(paired))

\* into_iter().unzip()
Unzip(paired) ==
    [simplices |-> [k \in 1..Len(paired) |-> paired[k][1]],
     levels    |-> [k \in 1..Len(paired) |-> paired[k][2]]]

\* zip()
Zip(in_simplices, in_levels) ==
    [k \in 1..Len(in_simplices) |-> <<in_simplices[k], in_levels[k]>>]

\* SimplicialComplex::new on validated input of matching lengths
SimplicialComplexNew(in_simplices, in_levels) ==
    Unzip(SortByLevel(Zip(in_simplices, in_levels)))

\* SimplicialComplex::new: the length check, the validation of every
\* simplex, then the stable sort by level
SimplicialComplex_new(in_simplices, in_levels) ==
    IF Len(in_simplices) # Len(in_levels) THEN Err("LengthMismatch")
    ELSE IF \E k \in 1..Len(in_simplices) : ~validate(in_simplices[k]).ok
         THEN Err("InvalidSimplex")
         ELSE Ok(SimplicialComplexNew(in_simplices, in_levels))

(* --------------------------- input complexes --------------------------- *)

\* every face of S[p] is in the list and precedes it
FacesPrecede(S, p) ==
    \A v \in Range(S[p]) :
        Len(S[p]) > 1 => \E q \in 1..(p - 1) : S[q] = Retain(S[p], v)

\* the lists of n distinct simplices in which every face precedes its cofaces.
\* Vertices are numbered in the order their 0-simplices enter the list: the
\* engine reads vertex labels only through simplex equality, so every other
\* labelling of the same list runs the same pass position for position.
RECURSIVE FilteredOrders(_)
FilteredOrders(n) ==
    IF n = 0 THEN {<<>>}
    ELSE UNION {{Append(S, s) : s \in {t \in AllSimplices :
                                         /\ t \notin Range(S)
                                         /\ Len(t) = 1 =>
                                              t[1] = Cardinality({q \in 1..Len(S) : Len(S[q]) = 1})
                                         /\ FacesPrecede(Append(S, t), n)}} :
                S \in FilteredOrders(n - 1)}

\* the vertices of s that no simplex of S holds are the next unused labels
NewVerticesInOrder(S, s) ==
    LET seen == UNION {Range(S[q]) : q \in 1..Len(S)}
        new == Range(s) \ seen
    IN  new = Cardinality(seen)..(Cardinality(seen) + Cardinality(new) - 1)

\* the lists of at most n well-formed simplices, in any order, repeats
\* included; vertices are numbered in the order they enter the list, as in
\* FilteredOrders
RECURSIVE ArbitraryOrders(_)
ArbitraryOrders(n) ==
    IF n = 0 THEN {<<>>}
    ELSE ArbitraryOrders(n - 1) \cup
         UNION {{Append(S, s) : s \in {t \in AllSimplices : NewVerticesInOrder(S, t)}} :
                S \in {T \in ArbitraryOrders(n - 1) : Len(T) = n - 1}}

\* the filtered lists of n simplices with one face exchanged with the
\* coface that follows it
LateFaceOrders(n) ==
    UNION {{[S EXCEPT ![k] = S[k + 1], ![k + 1] = S[k]] :
              k \in {q \in 1..(n - 1) :
                        \E v \in Range(S[q + 1]) :
                            Len(S[q + 1]) > 1 /\ S[q] = Retain(S[q + 1], v)}} :
           S \in FilteredOrders(n)}

InputOrders ==
    UNION {FilteredOrders(n) : n \in 0..MaxSimplices}
    \cup ArbitraryOrders(MaxArbitrary)
    \cup UNION {LateFaceOrders(n) : n \in 2..MaxLate}

\* non-decreasing level lists: what the sort of SimplicialComplex::new leaves
LevelLists(n) ==
    {L \in [1..n -> 0..MaxLevel] : \A a, b \in 1..n : a < b => L[a] <= L[b]}

\* closure property with every face before its cofaces (a filtered complex)
IsFiltered(S) ==
    /\ \A p, q \in 1..Len(S) : p # q => S[p] # S[q]
    /\ \A p \in 1..Len(S) : FacesPrecede(S, p)

(* ------------------------- persistence engine -------------------------- *)

\* Entry of the reduction table; chain and parent are the generating-chain
\* bookkeeping of the canonical engine
NewEntry(p) == [is_marked |-> FALSE, co_bounds |-> {}, chain |-> {p}, parent |-> None]

\* a subtraction that stops at the first element it removes
RECURSIVE SubtractUntilRemoval(_, _)
SubtractUntilRemoval(B, order) ==
    IF order = <<>> THEN B
    ELSE LET cb == Head(order)
         IN  IF cb \in B THEN B \ {cb}
             ELSE SubtractUntilRemoval(B \cup {cb}, Tail(order))

\* the toggles of one pivot column applied in iteration order `order`
RECURSIVE Subtract(_, _)
Subtract(B, order) ==
    IF order = <<>> THEN B
    ELSE LET cb == Head(order)
         IN  Subtract(IF cb \in B THEN B \ {cb} ELSE B \cup {cb}, Tail(order))

FoldChainReplaces(c, killer_chain) == killer_chain

\* folding the accumulated chain of a pivot's killer into chain c
FoldChain(c, killer_chain) == c \cup killer_chain

\* the chain reported at the birth of the feature born at entry b
BirthChain(T, b) == T[b].chain

\* the chain reported at the death of a feature killed by entry `killer`
DeathChain(T, killer) == Some(T[killer].chain)

FiniteInterval(T, L, b, killer) ==
    [birth |-> L[b], death |-> L[killer],
     birth_chain |-> BirthChain(T, b), death_chain |-> DeathChain(T, killer)]

InfiniteInterval(T, L, p) ==
    [birth |-> L[p], death |-> INFINITY,
     birth_chain |-> BirthChain(T, p), death_chain |-> None]

MaxDim(S) == Max({dim(S[p]) : p \in 1..Len(S)})

\* no call of SimplicialComplex::new or index_of is under observation
InputUnused ==
    /\ arg_simplices = <<>>
    /\ arg_levels = <<>>
    /\ found = <<>>

\* no call of PointCloud::new or pairwise_distances is under observation
ParUnused ==
    /\ arg_matrix = <<>>
    /\ shared_matrix = <<>>
    /\ mutex = <<>>
    /\ task = <<>>
    /\ local_dists = <<>>
    /\ writers = <<>>
    /\ acquired = <<>>

\* no call of the combinatorics functions is under observation
CombUnused ==
    /\ arg_elements = <<>>
    /\ arg_size = 0
    /\ arg_max_size = 0
    /\ self_indices = <<>>
    /\ self_is_first = FALSE
    /\ item = <<>>
    /\ collected = <<>>
    /\ polls = 0
    /\ all_subsets = <<>>

Init ==
    /\ \E S \in InputOrders : \E L \in LevelLists(Len(S)) :
          /\ simplices = S
          /\ levels = L
    /\ table = <<>>
    /\ intervals = <<>>
    /\ sx = 0
    /\ boundary = {}
    /\ pc = "idle"
    /\ err = None
    /\ call = 1
    /\ first = None
    /\ points = <<>>
    /\ max_dimension = 0
    /\ threshold = 0
    /\ InputUnused
    /\ CombUnused
    /\ ParUnused

\* compute_intervals, entry: fresh table, max_dim, empty buckets
Start ==
    /\ pc = "idle"
    /\ IF Len(simplices) = 0
       THEN \* max() of no dimensions is None and unwrap() panics
            /\ pc' = "panicked"
            /\ UNCHANGED <<table, intervals, sx>>
       ELSE /\ table' = [p \in 1..Len(simplices) |-> NewEntry(p)]
            /\ intervals' = [d \in 0..MaxDim(simplices) |-> <<>>]
            /\ sx' = 1
            /\ pc' = "loop"
    /\ UNCHANGED <<par, input, comb, cloud, complex, boundary, err, call, first>>

RestrictKeepsUnmarked ==
    /\ pc = "loop"
    /\ sx <= Len(table)
    /\ boundary' = boundary_of(simplices, sx)
    /\ pc' = "reduce"
    /\ UNCHANGED <<par, input, comb, cloud, complex, table, intervals, sx, err, call, first>>

\* remove_pivot_rows, first half: the boundary restricted to marked entries
Restrict ==
    /\ pc = "loop"
    /\ sx <= Len(table)
    /\ boundary' = {bx \in boundary_of(simplices, sx) : table[bx].is_marked}
    /\ pc' = "reduce"
    /\ UNCHANGED <<par, input, comb, cloud, complex, table, intervals, sx, err, call, first>>

\* remove_pivot_rows, one turn of the echelon loop on a claimed row
Eliminate ==
    /\ pc = "reduce"
    /\ boundary # {}
    /\ LET b == Max(boundary)
       IN  /\ table[b].co_bounds # {}
           /\ \E order \in IterationOrders(table[b].co_bounds) :
                 boundary' = Subtract(boundary, order)
           /\ table' = [table EXCEPT ![sx].chain =
                            FoldChain(@, table[table[b].parent[1]].chain)]
    /\ UNCHANGED <<par, input, comb, cloud, complex, intervals, sx, pc, err, call, first>>

\* remove_pivot_rows, exit of the echelon loop: empty, or an unclaimed row
Break ==
    /\ pc = "reduce"
    /\ IF boundary = {} THEN TRUE ELSE table[Max(boundary)].co_bounds = {}
    /\ pc' = "store"
    /\ UNCHANGED <<par, input, comb, cloud, complex, table, intervals, sx, boundary, err, call, first>>

\* compute_intervals, loop body: an empty reduced boundary marks a cycle
Mark ==
    /\ pc = "store"
    /\ boundary = {}
    /\ table' = [table EXCEPT ![sx].is_marked = TRUE]
    /\ sx' = sx + 1
    /\ pc' = "loop"
    /\ UNCHANGED <<par, input, comb, cloud, complex, intervals, boundary, err, call, first>>

PairForgetsClaim ==
    /\ pc = "store"
    /\ boundary # {}
    /\ LET b == Max(boundary)
           d == dim(simplices[b])
       IN  /\ table' = [table EXCEPT ![b].parent = Some(sx)]
           /\ intervals' = [intervals EXCEPT ![d] =
                               Append(@, FiniteInterval(table, levels, b, sx))]
    /\ sx' = sx + 1
    /\ pc' = "loop"
    /\ UNCHANGED <<par, input, comb, cloud, complex, boundary, err, call, first>>

PairClaimsSmallestRow ==
    /\ pc = "store"
    /\ boundary # {}
    /\ LET b == CHOOSE x \in boundary : \A y \in boundary : x <= y
           d == dim(simplices[b])
       IN  /\ table' = [table EXCEPT ![b].co_bounds = boundary,
                                     ![b].parent = Some(sx)]
           /\ intervals' = [intervals EXCEPT ![d] =
                               Append(@, FiniteInterval(table, levels, b, sx))]
    /\ sx' = sx + 1
    /\ pc' = "loop"
    /\ UNCHANGED <<par, input, comb, cloud, complex, boundary, err, call, first>>

PairUnderKillerDim ==
    /\ pc = "store"
    /\ boundary # {}
    /\ LET b == Max(boundary)
           d == dim(simplices[sx])
       IN  /\ table' = [table EXCEPT ![b].co_bounds = boundary,
                                     ![b].parent = Some(sx)]
           /\ intervals' = [intervals EXCEPT ![d] =
                               Append(@, FiniteInterval(table, levels, b, sx))]
    /\ sx' = sx + 1
    /\ pc' = "loop"
    /\ UNCHANGED <<par, input, comb, cloud, complex, boundary, err, call, first>>

\* compute_intervals, loop body: a non-empty reduced boundary claims its
\* largest row and emits the finite interval under that row's dimension
Pair ==
    /\ pc = "store"
    /\ boundary # {}
    /\ LET b == Max(boundary)
           d == dim(simplices[b])
       IN  /\ table' = [table EXCEPT ![b].co_bounds = boundary,
                                     ![b].parent = Some(sx)]
           /\ intervals' = [intervals EXCEPT ![d] =
                               Append(@, FiniteInterval(table, levels, b, sx))]
    /\ sx' = sx + 1
    /\ pc' = "loop"
    /\ UNCHANGED <<par, input, comb, cloud, complex, boundary, err, call, first>>

\* compute_intervals: the pass is over, the table is read from its start
EndPass ==
    /\ pc = "loop"
    /\ sx > Len(table)
    /\ sx' = 1
    /\ pc' = "collect"
    /\ UNCHANGED <<par, input, comb, cloud, complex, table, intervals, boundary, err, call, first>>

CollectInFront ==
    /\ pc = "collect"
    /\ sx <= Len(table)
    /\ intervals' =
          IF table[sx].is_marked /\ table[sx].co_bounds = {}
          THEN [intervals EXCEPT ![dim(simplices[sx])] =
                   <<InfiniteInterval(table, levels, sx)>> \o @]
          ELSE intervals
    /\ sx' = sx + 1
    /\ UNCHANGED <<par, input, comb, cloud, complex, table, boundary, pc, err, call, first>>

CollectEveryMarked ==
    /\ pc = "collect"
    /\ sx <= Len(table)
    /\ intervals' =
          IF table[sx].is_marked
          THEN [intervals EXCEPT ![dim(simplices[sx])] =
                   Append(@, InfiniteInterval(table, levels, sx))]
          ELSE intervals
    /\ sx' = sx + 1
    /\ UNCHANGED <<par, input, comb, cloud, complex, table, boundary, pc, err, call, first>>

\* compute_intervals, final loop: a marked, unclaimed entry never dies
Collect ==
    /\ pc = "collect"
    /\ sx <= Len(table)
    /\ intervals' =
          IF table[sx].is_marked /\ table[sx].co_bounds = {}
          THEN [intervals EXCEPT ![dim(simplices[sx])] =
                   Append(@, InfiniteInterval(table, levels, sx))]
          ELSE intervals
    /\ sx' = sx + 1
    /\ UNCHANGED <<par, input, comb, cloud, complex, table, boundary, pc, err, call, first>>

\* compute_intervals returns the buckets
Return ==
    /\ pc = "collect"
    /\ sx > Len(table)
    /\ pc' = "done"
    /\ UNCHANGED <<par, input, comb, cloud, complex, table, intervals, sx, boundary, err, call, first>>

Next ==
    \/ Start
    \/ Restrict
    \/ Eliminate
    \/ Break
    \/ Mark
    \/ Pair
    \/ EndPass
    \/ Collect
    \/ Return

Spec == Init /\ [][Next]_vars

\* the call runs on: compute_intervals is sequential code and every step
\* of it that can be taken is taken
FairSpec == Spec /\ WF_vars(Next)

\* the caller keeps the result and calls compute_intervals again
SecondCall(S, L) ==
    /\ first' = Some([simplices |-> simplices, levels |-> levels, intervals |-> intervals])
    /\ call' = 2
    /\ simplices' = S
    /\ levels' = L
    /\ table' = <<>>
    /\ intervals' = <<>>
    /\ sx' = 0
    /\ boundary' = {}
    /\ pc' = "idle"
    /\ UNCHANGED <<par, input, comb, cloud, err>>

\* a repeated call on the same immutable complex
Repeat ==
    /\ pc = "done"
    /\ call = 1
    /\ SecondCall(simplices, levels)

\* the same simplices and levels handed to SimplicialComplex::new with two
\* neighbours of equal level exchanged: the stable sort keeps that order
Reorder ==
    /\ pc = "done"
    /\ call = 1
    /\ \E k \in 1..(Len(simplices) - 1) :
          /\ levels[k] = levels[k + 1]
          /\ LET swapped == [simplices EXCEPT ![k] = simplices[k + 1],
                                              ![k + 1] = simplices[k]]
                 built == SimplicialComplexNew(swapped, levels)
             IN  SecondCall(built.simplices, built.levels)

NextPair ==
    \/ Next
    \/ Repeat
    \/ Reorder

SpecPair == Init /\ [][NextPair]_vars

(* ----------------------- SimplicialComplex::new ------------------------ *)

\* the vertex lists Simplex::new can be handed: any order, repeats, none
RawVertexLists == UNION {[1..k -> Vertices] : k \in 0..MaxRaw}

\* the values of type Simplex that Simplex::new makes of them
Simplices == {SimplexNew(r) : r \in RawVertexLists}

\* the simplices and levels test_triangle's cloud hands to
\* SimplicialComplex::new (levels as squares: 4 for 2, 5 for sqrt 5)
TriangleSimplices ==
    <<(<<0>>), (<<1>>), (<<2>>), (<<0, 1>>), (<<0, 2>>), (<<1, 2>>), (<<0, 1, 2>>)>>

TriangleLevels == <<0, 0, 0, 1, 5, 4, 5>>

\* the arguments of one call of SimplicialComplex::new; the levels of a
\* call with mismatched lengths are never read and are all 0
InitNew ==
    /\ \/ \E n \in 0..MaxInput :
             /\ arg_simplices \in [1..n -> Simplices]
             /\ \/ arg_levels \in [1..n -> 0..MaxLevel]
                \/ \E m \in {k \in {n - 1, n + 1} : k >= 0} :
                      arg_levels = [k \in 1..m |-> 0]
       \/ /\ arg_simplices = TriangleSimplices
          /\ arg_levels = TriangleLevels
    /\ found = None
    /\ simplices = <<>>
    /\ levels = <<>>
    /\ table = <<>>
    /\ intervals = <<>>
    /\ sx = 0
    /\ boundary = {}
    /\ pc = "new"
    /\ err = None
    /\ call = 1
    /\ first = None
    /\ points = <<>>
    /\ max_dimension = 0
    /\ threshold = 0
    /\ CombUnused
    /\ ParUnused

\* SimplicialComplex::new(arg_simplices, arg_levels)
Construct ==
    /\ pc = "new"
    /\ \E result \in {SimplicialComplex_new(arg_simplices, arg_levels)} :
          IF result.ok
          THEN /\ simplices' = result.value.simplices
               /\ levels' = result.value.levels
               /\ pc' = "built"
               /\ UNCHANGED err
          ELSE /\ err' = Some(result.error)
               /\ pc' = "failed"
               /\ UNCHANGED complex
    /\ UNCHANGED <<par, input, comb, cloud, table, intervals, sx, boundary, call, first>>

\* index_of(&Simplex::new(vertices)) for the vertices of simplices[i], in
\* some order
Lookup ==
    /\ pc = "built"
    /\ \E i \in 1..Len(simplices) : \E order \in IterationOrders(Range(simplices[i])) :
          found' = Some([position |-> i, vertices |-> order,
                         index |-> index_of(simplices, SimplexNew(order))])
    /\ pc' = "looked"
    /\ UNCHANGED <<par, arg_simplices, arg_levels, comb, cloud, complex, table, intervals,
                   sx, boundary, err, call, first>>

NextNew ==
    \/ Construct
    \/ Lookup

SpecNew == InitNew /\ [][NextNew]_vars

(* ---------------------------- Combinatorics ---------------------------- *)

(* usize arithmetic.  A usize is WordLimbs limbs of LimbBits bits each,    *)
(* least significant first; the multipliers and divisors of the guard are  *)
(* population sizes, far below a limb.  A number of unbounded size is a    *)
(* limb sequence of any length.                                            *)

\* 2^16
LimbBase == 65536

\* usize has 64 bits on the supported targets
WordLimbs == 4

\* the limbs of a natural number n below 2^31
Limbs(n) == [k \in 1..WordLimbs |->
                IF k = 1 THEN n % LimbBase
                ELSE IF k = 2 THEN n \div LimbBase
                ELSE 0]

\* a * m + carry over limb sequences, one limb longer than a
RECURSIVE MulLimbs(_, _, _)
MulLimbs(a, m, carry) ==
    IF a = <<>> THEN <<carry>>
    ELSE <<(Head(a) * m + carry) % LimbBase>>
         \o MulLimbs(Tail(a), m, (Head(a) * m + carry) \div LimbBase)

\* the quotient of the limbs 1..k of a, with `rem` carried in from above
RECURSIVE DivLimbs(_, _, _, _)
DivLimbs(a, i, k, rem) ==
    IF k = 0 THEN <<>>
    ELSE Append(DivLimbs(a, i, k - 1, (rem * LimbBase + a[k]) % i),
                (rem * LimbBase + a[k]) \div i)

\* a > n for a limb sequence a and a natural number n below 2^31
Exceeds(a, n) ==
    \/ \E k \in 3..Len(a) : a[k] # 0
    \/ a[2] > n \div LimbBase
    \/ a[2] = n \div LimbBase /\ a[1] > n % LimbBase

\* acc * (len - size + i) / i in usize: the product keeps its low
\* WordLimbs limbs, a non-zero limb above them is an overflow
FoldStep(acc, i, len, size) ==
    LET product == MulLimbs(acc, len - size + i, 0)
    IN  [value |-> DivLimbs(product, i, WordLimbs, 0),
         overflowed |-> product[WordLimbs + 1] # 0]

\* (1..=size).fold(1, |acc, i| acc * (len - size + i) / i), with whether
\* some product overflowed
RECURSIVE FoldCount(_, _, _, _, _)
FoldCount(acc, overflowed, i, len, size) ==
    IF i > size THEN [value |-> acc, overflowed |-> overflowed]
    ELSE LET step == FoldStep(acc, i, len, size)
         IN  IF step.overflowed
             THEN FoldCount(step.value, TRUE, i + 1, len, size)
             ELSE FoldCount(step.value, overflowed, i + 1, len, size)

n_combinations(len, size) == FoldCount(Limbs(1), FALSE, 1, len, size)

\* the checks of Combinations::new.  A product that overflows panics in a
\* build with overflow checks (the default of the dev and test profiles)
\* and wraps around in a build without them.
Guard(len, size, overflow_checks) ==
    IF size > len THEN Err("InvalidSize")
    ELSE LET n == n_combinations(len, size)
         IN  IF n.overflowed /\ overflow_checks THEN Err("panic")
             ELSE IF Exceeds(n.value, TooLargeLimit) THEN Err("TooLarge")
             ELSE Ok(n.value)

\* .collect() into a Vec: the values of f, computed once
Vec(f) == SubSeq(f, 1, Len(f))

\* the elements at the (0-based) indices
Select(elements, indices) == Vec([k \in 1..Len(indices) |-> elements[indices[k] + 1]])

CombinationsAdvanceNoReset(indices, len, size) ==
    LET movable == {k \in 1..size : indices[k] # (k - 1) + len - size}
    IN  IF movable = {} THEN None
        ELSE LET i == Max(movable)
             IN  Some(Vec([k \in 1..size |->
                        IF k = i THEN indices[i] + 1 ELSE indices[k]]))

\* Combinations::next after the first item: the rightmost index that can
\* still move right is advanced and everything to its right packed after it
CombinationsAdvance(indices, len, size) ==
    LET movable == {k \in 1..size : indices[k] # (k - 1) + len - size}
    IN  IF movable = {} THEN None
        ELSE LET i == Max(movable)
             IN  Some(Vec([k \in 1..size |->
                        IF k < i THEN indices[k] ELSE indices[i] + 1 + (k - i)]))

\* the items next() yields from `indices` on, `indices` included, at most
\* 2^depth of them, and the indices of the last of them
RECURSIVE Take(_, _, _, _)
Take(elements, indices, size, depth) ==
    IF depth = 0
    THEN [items |-> <<Select(elements, indices)>>, last |-> indices]
    ELSE LET a == Take(elements, indices, size, depth - 1)
             nxt == CombinationsAdvance(a.last, Len(elements), size)
         IN  IF nxt = None THEN a
             ELSE LET b == Take(elements, nxt[1], size, depth - 1)
                  IN  [items |-> a.items \o b.items, last |-> b.last]

\* collect(): every item next() yields from `indices` on until it returns
\* None, gathered in runs of doubling length
RECURSIVE CollectRuns(_, _, _, _)
CollectRuns(elements, indices, size, depth) ==
    LET a == Take(elements, indices, size, depth)
        nxt == CombinationsAdvance(a.last, Len(elements), size)
    IN  IF nxt = None THEN a.items
        ELSE a.items \o CollectRuns(elements, nxt[1], size, depth + 1)

CollectFrom(elements, indices, size) == CollectRuns(elements, indices, size, 0)

\* Combinations::new followed by collect().  No request of generate_subsets
\* overflows: it stops at the first size whose count is over the limit.
generate_combinations(elements, size) ==
    LET checked == Guard(Len(elements), size, FALSE)
    IN  IF checked.ok
        THEN Ok(CollectFrom(elements, [k \in 1..size |-> k - 1], size))
        ELSE checked

RECURSIVE SubsetsFrom(_, _, _)
SubsetsFrom(elements, size, max_size) ==
    IF size > max_size THEN <<>>
    ELSE LET combinations == generate_combinations(elements, size)
         IN  IF combinations.ok
             THEN combinations.value \o SubsetsFrom(elements, size + 1, max_size)
             ELSE <<>>

Min2(a, b) == IF a <= b THEN a ELSE b

generate_subsets(elements, max_size) ==
    <<(<<>>)>> \o SubsetsFrom(elements, 1, Min2(max_size, Len(elements)))

\* the population of test_large_input with its size, and the smallest
\* population with a size for which a product of the guard's fold does not
\* fit 64 bits
LargeRequests == {<<100, 10>>, <<63, 29>>}

\* the smallest population whose pairs are more than the guard lets through
GuardLen == CHOOSE n \in 2..5000 : Exceeds(n_combinations(n, 2).value, TooLargeLimit)

\* one call of Combinations::new (then of next(), again and again) or one
\* call of generate_subsets
InitComb ==
    /\ \/ /\ pc = "comb"
          /\ \E n \in 0..MaxElements : arg_elements = Vec([k \in 1..n |-> k])
          /\ arg_size \in 0..(MaxElements + 1)
          /\ arg_max_size = 0
       \/ /\ pc = "comb"
          /\ \E r \in LargeRequests :
                /\ arg_elements = Vec([k \in 1..r[1] |-> k - 1])
                /\ arg_size = r[2]
          /\ arg_max_size = 0
       \/ /\ pc = "subsets"
          /\ \E n \in 0..MaxElements : arg_elements = Vec([k \in 1..n |-> k])
          /\ arg_max_size \in 0..(MaxElements + 1)
          /\ arg_size = 0
       \/ /\ pc = "subsets"
          /\ arg_elements = Vec([k \in 1..GuardLen |-> k - 1])
          /\ arg_max_size = 2
          /\ arg_size = 0
    /\ self_indices = <<>>
    /\ self_is_first = FALSE
    /\ item = None
    /\ collected = <<>>
    /\ polls = 0
    /\ all_subsets = <<>>
    /\ InputUnused
    /\ ParUnused
    /\ simplices = <<>>
    /\ levels = <<>>
    /\ table = <<>>
    /\ intervals = <<>>
    /\ sx = 0
    /\ boundary = {}
    /\ err = None
    /\ call = 1
    /\ first = None
    /\ points = <<>>
    /\ max_dimension = 0
    /\ threshold = 0

\* Combinations::new(&arg_elements, arg_size), in a build with or without
\* overflow checks
CombinationsNew ==
    /\ pc = "comb"
    /\ \E overflow_checks \in BOOLEAN :
       \E checked \in {Guard(Len(arg_elements), arg_size, overflow_checks)} :
          IF checked.ok
          THEN /\ self_indices' = Vec([k \in 1..arg_size |-> k - 1])
               /\ self_is_first' = TRUE
               /\ pc' = "iter"
               /\ UNCHANGED err
          ELSE IF checked.error = "panic"
          THEN /\ pc' = "panicked"
               /\ UNCHANGED <<self_indices, self_is_first, err>>
          ELSE /\ err' = Some(checked.error)
               /\ pc' = "rejected"
               /\ UNCHANGED <<self_indices, self_is_first>>
    /\ UNCHANGED <<par, input, cloud, complex, table, intervals, sx, boundary, call, first,
                   arg_elements, arg_size, arg_max_size, item, collected, polls,
                   all_subsets>>

\* Combinations::next; the caller pushes every item it is handed
CombinationsNext ==
    /\ pc = "iter"
    /\ polls < MaxPolls
    /\ IF self_is_first
       THEN /\ self_is_first' = FALSE
            /\ item' = Some(Select(arg_elements, self_indices))
            /\ collected' = Append(collected, Select(arg_elements, self_indices))
            /\ UNCHANGED <<self_indices, polls>>
       ELSE \E nxt \in {CombinationsAdvance(self_indices, Len(arg_elements), arg_size)} :
               IF nxt = None
               THEN /\ item' = None
                    /\ polls' = polls + 1
                    /\ UNCHANGED <<self_indices, self_is_first, collected>>
               ELSE /\ self_indices' = nxt[1]
                    /\ item' = Some(Select(arg_elements, nxt[1]))
                    /\ collected' = Append(collected, Select(arg_elements, nxt[1]))
                    /\ UNCHANGED <<self_is_first, polls>>
    /\ UNCHANGED <<par, input, cloud, complex, table, intervals, sx, boundary, pc, err, call,
                   first, arg_elements, arg_size, arg_max_size, all_subsets>>

\* generate_subsets(&arg_elements, arg_max_size)
GenerateSubsets ==
    /\ pc = "subsets"
    /\ all_subsets' = generate_subsets(arg_elements, arg_max_size)
    /\ pc' = "returned"
    /\ UNCHANGED <<par, input, cloud, complex, table, intervals, sx, boundary, err, call,
                   first, arg_elements, arg_size, arg_max_size, self_indices,
                   self_is_first, item, collected, polls>>

NextComb ==
    \/ CombinationsNew
    \/ CombinationsNext
    \/ GenerateSubsets

SpecComb == InitComb /\ [][NextComb]_vars

(* ----------------------------- PointCloud ------------------------------ *)

Grid == (0..GridMax) \X (0..GridMax)

\* PointCloud::new accepts every matrix with at least one row
Clouds == UNION {[1..n -> Grid] : n \in 1..MaxPoints}

\* a threshold t >= 0 is held as t * t, a negative one as -1
Thresholds == {-1, 0, 1, 2, 100}

\* the sum over the zipped coordinates of the squared differences
RECURSIVE SumSquares(_, _, _)
SumSquares(point1, point2, k) ==
    IF k > Len(point1) \/ k > Len(point2) THEN 0
    ELSE (point1[k] - point2[k]) * (point1[k] - point2[k]) + SumSquares(point1, point2, k + 1)

\* euclidean_distance, held as its square: the square root is increasing
\* and one-to-one on the sums of squares of the grid
euclidean_distance(point1, point2) == SumSquares(point1, point2, 1)

\* pairwise_distances: cells [i,j] and [j,i] for j > i, zeros elsewhere
pairwise_distances(P) ==
    [i \in 1..Len(P) |-> [j \in 1..Len(P) |->
        IF i = j THEN 0
        ELSE IF i < j THEN euclidean_distance(P[i], P[j])
        ELSE euclidean_distance(P[j], P[i])]]

\* the smallest distance among the pairs
min_dist(subset, dist_matrix) ==
    LET all == generate_subsets(subset, 2)
        pairs == SelectSeq(all, LAMBDA q : Len(q) = 2)
        ds == {dist_matrix[pairs[k][1] + 1][pairs[k][2] + 1] : k \in 1..Len(pairs)}
    IN  CHOOSE d \in ds : \A e \in ds : d <= e

\* the largest distance among the pairs of a subset of two or more points
max_dist(subset, dist_matrix) ==
    LET all == generate_subsets(subset, 2)
        pairs == SelectSeq(all, LAMBDA q : Len(q) = 2)
    IN  Max({dist_matrix[pairs[k][1] + 1][pairs[k][2] + 1] : k \in 1..Len(pairs)})

\* the accepted (simplex, level) pairs, in the order of the subsets
RECURSIVE Accepted(_, _, _)
Accepted(subsets, dist_matrix, thr) ==
    IF Len(subsets) = 0 THEN <<>>
    ELSE IF Len(subsets) = 1
    THEN LET subset == subsets[1]
         IN  IF subset = <<>> THEN <<>>
             ELSE LET d == IF Len(subset) = 1 THEN 0 ELSE max_dist(subset, dist_matrix)
                  IN  IF d <= thr THEN <<(<<SimplexNew(subset), d>>)>> ELSE <<>>
    ELSE Accepted(SubSeq(subsets, 1, Len(subsets) \div 2), dist_matrix, thr)
         \o Accepted(SubSeq(subsets, Len(subsets) \div 2 + 1, Len(subsets)), dist_matrix, thr)

InitCloud ==
    /\ points \in Clouds
    /\ max_dimension \in 0..MaxPoints
    /\ threshold \in Thresholds
    /\ simplices = <<>>
    /\ levels = <<>>
    /\ table = <<>>
    /\ intervals = <<>>
    /\ sx = 0
    /\ boundary = {}
    /\ pc = "cloud"
    /\ err = None
    /\ call = 1
    /\ first = None
    /\ InputUnused
    /\ CombUnused
    /\ ParUnused

InvalidDimensionAbove(max_dim, n_points) == max_dim > n_points

\* the guard of vietoris_rips_complex
InvalidDimension(max_dim, n_points) == max_dim >= n_points

\* PointCloud::vietoris_rips_complex
vietoris_rips_complex ==
    /\ pc = "cloud"
    /\ IF InvalidDimension(max_dimension, Len(points))
       THEN /\ err' = Some("InvalidDimension")
            /\ pc' = "failed"
            /\ UNCHANGED complex
       ELSE \E dist_matrix \in {pairwise_distances(points)} :
            \E subsets \in {generate_subsets([k \in 1..Len(points) |-> k - 1],
                                              max_dimension + 1)} :
            \E accepted \in {Unzip(Accepted(subsets, dist_matrix, threshold))} :
            \E built \in {SimplicialComplex_new(accepted.simplices, accepted.levels)} :
                IF built.ok
                THEN /\ simplices' = built.value.simplices
                     /\ levels' = built.value.levels
                     /\ pc' = "idle"
                     /\ UNCHANGED err
                ELSE \* map_err: every error of SimplicialComplex::new
                     \* is returned as InvalidDimension
                     /\ err' = Some("InvalidDimension")
                     /\ pc' = "failed"
                     /\ UNCHANGED complex
    /\ UNCHANGED <<par, input, comb, cloud, table, intervals, sx, boundary, call, first>>

NextCloud ==
    \/ vietoris_rips_complex
    \/ Next

SpecCloud == InitCloud /\ [][NextCloud]_vars

\* GuardLen points in one place: every pair of them is within threshold 0
CrowdedCloud == Vec([k \in 1..GuardLen |-> <<0, 0>>])

\* one call of vietoris_rips_complex, on a small cloud or on the crowded one
InitRips ==
    /\ \/ /\ points \in Clouds
          /\ max_dimension \in 0..MaxPoints
          /\ threshold \in Thresholds
       \/ /\ points = CrowdedCloud
          /\ max_dimension = 1
          /\ threshold = 0
    /\ simplices = <<>>
    /\ levels = <<>>
    /\ table = <<>>
    /\ intervals = <<>>
    /\ sx = 0
    /\ boundary = {}
    /\ pc = "cloud"
    /\ err = None
    /\ call = 1
    /\ first = None
    /\ InputUnused
    /\ CombUnused
    /\ ParUnused

NextRips == vietoris_rips_complex

SpecRips == InitRips /\ [][NextRips]_vars

(* ------------------- PointCloud::new, pairwise_distances --------------- *)

\* the two values a coordinate of a matrix handed to PointCloud::new takes
Coordinates == {0, 1}

\* the n x d matrices over Coordinates, n = 0 and d = 0 included
Matrices(n, d) ==
    {[nrows |-> n, ncols |-> d, rows |-> r] : r \in [1..n -> [1..d -> Coordinates]]}

is_empty_no_columns(matrix) == matrix.ncols = 0

\* Array2::is_empty: the matrix has no element
is_empty(matrix) == matrix.nrows * matrix.ncols = 0

\* PointCloud::new
PointCloud_new(matrix) ==
    IF is_empty(matrix) THEN Err("EmptyCloud") ELSE Ok(matrix.rows)

PartnersAll(i, n) == [k \in 1..(n - 1) |-> IF k < i THEN k ELSE k + 1]

\* the rows j that task i pairs its row with: (i + 1..n)
Partners(i, n) == [k \in 1..(n - i) |-> i + k]

CellsOfUpperOnly(entry) == << <<entry[1], entry[2]>> >>

\* the cells one (i, j, dist) of local_dists is written to, in order
CellsOf(entry) == << <<entry[1], entry[2]>>, <<entry[2], entry[1]>> >>

\* the writes of the loop over `local` that go to cell [a, b], in order
WritesTo(local, a, b) ==
    SelectSeq(local, LAMBDA entry : <<a, b>> \in Range(CellsOf(entry)))

\* the matrix after the loop over `local`
WriteCells(matrix, local) ==
    [a \in 1..Len(matrix) |-> [b \in 1..Len(matrix) |->
        IF WritesTo(local, a, b) = <<>> THEN matrix[a][b]
        ELSE WritesTo(local, a, b)[Len(WritesTo(local, a, b))][3]]]

InitDist ==
    /\ \E n \in 0..MaxRows : \E d \in 0..MaxCols : arg_matrix \in Matrices(n, d)
    /\ pc = "new"
    /\ shared_matrix = <<>>
    /\ mutex = None
    /\ task = <<>>
    /\ local_dists = <<>>
    /\ writers = <<>>
    /\ acquired = <<>>
    /\ points = <<>>
    /\ max_dimension = 0
    /\ threshold = 0
    /\ simplices = <<>>
    /\ levels = <<>>
    /\ table = <<>>
    /\ intervals = <<>>
    /\ sx = 0
    /\ boundary = {}
    /\ err = None
    /\ call = 1
    /\ first = None
    /\ InputUnused
    /\ CombUnused

\* PointCloud::new(arg_matrix)
PointCloudNew ==
    /\ pc = "new"
    /\ \E built \in {PointCloud_new(arg_matrix)} :
          IF built.ok
          THEN /\ points' = built.value
               /\ pc' = "cloud"
               /\ UNCHANGED err
          ELSE /\ err' = Some(built.error)
               /\ pc' = "failed"
               /\ UNCHANGED points
    /\ UNCHANGED <<par, input, comb, max_dimension, threshold, complex, table, intervals,
                   sx, boundary, call, first>>

\* pairwise_distances, entry: the zero matrix behind its lock, one task
\* per row handed to the thread pool
Fork ==
    /\ pc = "cloud"
    /\ shared_matrix' = [a \in 1..Len(points) |-> [b \in 1..Len(points) |-> 0]]
    /\ mutex' = None
    /\ task' = [i \in 1..Len(points) |-> "start"]
    /\ local_dists' = [i \in 1..Len(points) |-> <<>>]
    /\ writers' = [a \in 1..Len(points) |-> [b \in 1..Len(points) |-> <<>>]]
    /\ acquired' = [i \in 1..Len(points) |-> 0]
    /\ pc' = "par"
    /\ UNCHANGED <<arg_matrix, input, comb, cloud, complex, table, intervals, sx, boundary,
                   err, call, first>>

\* task i collects its local_dists; nothing shared is touched
Compute(i) ==
    /\ pc = "par"
    /\ task[i] = "start"
    /\ local_dists' = [local_dists EXCEPT ![i] =
          Vec([k \in 1..Len(Partners(i, Len(points))) |->
                 <<i, Partners(i, Len(points))[k],
                   euclidean_distance(points[i], points[Partners(i, Len(points))[k]])>>])]
    /\ task' = [task EXCEPT ![i] = "computed"]
    /\ UNCHANGED <<arg_matrix, shared_matrix, mutex, writers, acquired, input, comb, cloud,
                   complex, table, intervals, sx, boundary, pc, err, call, first>>

\* task i takes the lock: shared_matrix.lock().unwrap()
Lock(i) ==
    /\ pc = "par"
    /\ task[i] = "computed"
    /\ mutex = None
    /\ mutex' = Some(i)
    /\ acquired' = [acquired EXCEPT ![i] = @ + 1]
    /\ task' = [task EXCEPT ![i] = "locked"]
    /\ UNCHANGED <<arg_matrix, shared_matrix, local_dists, writers, input, comb, cloud,
                   complex, table, intervals, sx, boundary, pc, err, call, first>>

\* task i, holding the lock, writes its local_dists into the matrix
Write(i) ==
    /\ pc = "par"
    /\ task[i] = "locked"
    /\ shared_matrix' = WriteCells(shared_matrix, local_dists[i])
    /\ writers' = [a \in 1..Len(points) |-> [b \in 1..Len(points) |->
                      writers[a][b] \o [k \in 1..Len(WritesTo(local_dists[i], a, b)) |-> i]]]
    /\ task' = [task EXCEPT ![i] = "written"]
    /\ UNCHANGED <<arg_matrix, mutex, local_dists, acquired, input, comb, cloud,
                   complex, table, intervals, sx, boundary, pc, err, call, first>>

\* the closure of task i ends: the guard is dropped and the lock released
Unlock(i) ==
    /\ pc = "par"
    /\ task[i] = "written"
    /\ mutex' = None
    /\ task' = [task EXCEPT ![i] = "finished"]
    /\ UNCHANGED <<arg_matrix, shared_matrix, local_dists, writers, acquired, input, comb,
                   cloud, complex, table, intervals, sx, boundary, pc, err, call, first>>

\* one step of one row task
RowTask == \E i \in 1..Len(task) : Compute(i) \/ Lock(i) \/ Write(i) \/ Unlock(i)

\* for_each returns when every task is over; the matrix is taken out of
\* its lock and returned
Join ==
    /\ pc = "par"
    /\ \A i \in 1..Len(task) : task[i] = "finished"
    /\ pc' = "joined"
    /\ UNCHANGED <<par, input, comb, cloud, complex, table, intervals, sx, boundary,
                   err, call, first>>

NextDist ==
    \/ PointCloudNew
    \/ Fork
    \/ \E i \in 1..Len(task) : Compute(i)
    \/ \E i \in 1..Len(task) : Lock(i)
    \/ \E i \in 1..Len(task) : Write(i)
    \/ \E i \in 1..Len(task) : Unlock(i)
    \/ Join

SpecDist == InitDist /\ [][NextDist]_vars

\* the thread pool runs every task it was handed, and for_each returns
\* once they are over
FairDist == SpecDist /\ WF_vars(RowTask) /\ WF_vars(Join)

(* ------------------------------ claims --------------------------------- *)

Dims == DOMAIN intervals

Finite(iv) == iv.death # INFINITY

\* number of intervals of bucket d that satisfy Test
CountIn(d, Test(_)) == Cardinality({k \in 1..Len(intervals[d]) : Test(intervals[d][k])})

NumFinite == IF Dims = {} THEN 0 ELSE
    LET RECURSIVE Sum(_)
        Sum(D) == IF D = {} THEN 0
                  ELSE LET d == CHOOSE x \in D : TRUE
                       IN  CountIn(d, Finite) + Sum(D \ {d})
    IN  Sum(Dims)

NumInfinite == IF Dims = {} THEN 0 ELSE
    LET RECURSIVE Sum(_)
        Sum(D) == IF D = {} THEN 0
                  ELSE LET d == CHOOSE x \in D : TRUE
                       IN  CountIn(d, LAMBDA iv : ~Finite(iv)) + Sum(D \ {d})
    IN  Sum(Dims)

Marked == {p \in 1..Len(table) : table[p].is_marked}

Claimed == {p \in 1..Len(table) : table[p].co_bounds # {}}

\* C1: whenever the reduced boundary of the simplex under work is non-empty,
\* the step emits exactly one interval, finite, with birth the level of the
\* largest row m of the reduced boundary and death the level of the simplex,
\* appended to the bucket of dim(m), which is not the simplex's own
\* dimension; no other bucket changes.
C1_PivotInterval ==
    [][(pc = "store" /\ boundary # {}) =>
         LET m == Max(boundary)
             d == dim(simplices[m])
         IN  /\ d # dim(simplices[sx])
             /\ Len(intervals'[d]) = Len(intervals[d]) + 1
             /\ SubSeq(intervals'[d], 1, Len(intervals[d])) = intervals[d]
             /\ intervals'[d][Len(intervals'[d])].birth = levels[m]
             /\ intervals'[d][Len(intervals'[d])].death = levels[sx]
             /\ \A e \in Dims \ {d} : intervals'[e] = intervals[e]
      ]_vars

\* a pass that has just paired a simplex with an earlier pivot
C1_Witness ==
    /\ pc = "loop"
    /\ sx > 1
    /\ ~table[sx - 1].is_marked
    /\ NumFinite > 0

RECURSIVE Ascending(_)
Ascending(S) ==
    IF S = {} THEN <<>>
    ELSE LET m == CHOOSE x \in S : \A y \in S : x <= y
         IN  <<m>> \o Ascending(S \ {m})

\* C2: after the pass, bucket d holds one infinite interval for each entry of
\* dimension d that is marked and whose pivot co-boundary is still empty, in
\* index order, with birth that entry's level and no death chain; no other
\* entry yields an infinite interval.
C2_InfiniteIntervals ==
    pc = "done" =>
        \A d \in Dims :
            LET inf == SelectSeq(intervals[d], LAMBDA iv : ~Finite(iv))
                ps  == Ascending({p \in Marked \ Claimed : dim(simplices[p]) = d})
            IN  /\ Len(inf) = Len(ps)
                /\ \A k \in 1..Len(ps) :
                      /\ inf[k].birth = levels[ps[k]]
                      /\ inf[k].death_chain = None

\* a finished pass with an immortal feature and a marked entry that was killed
C2_Witness ==
    /\ pc = "done"
    /\ NumInfinite > 0
    /\ Marked \cap Claimed # {}

\* C3: after the pass the finite and the infinite intervals together number
\* the marked entries; every unmarked entry claimed exactly one marked entry,
\* so the finite intervals number the unmarked entries.
C3_Conservation ==
    pc = "done" =>
        /\ NumFinite + NumInfinite = Cardinality(Marked)
        /\ NumFinite = Len(table) - Cardinality(Marked)
        /\ Claimed \subseteq Marked
        /\ Cardinality(Claimed) = Len(table) - Cardinality(Marked)

\* a finished pass with two deaths and a survivor
C3_Witness ==
    /\ pc = "done"
    /\ NumFinite >= 2
    /\ NumInfinite >= 1

(* Reference: the standard GF(2) column reduction of the full boundary     *)
(* matrix (column j is boundary_of(S, j); a column is reduced by adding    *)
(* the earlier reduced column with the same lowest one until none has).    *)

SymDiff(A, B) == (A \ B) \cup (B \ A)

RECURSIVE ReduceColumn(_, _)
ReduceColumn(col, R) ==
    IF col = {} THEN {}
    ELSE LET same == {k \in 1..Len(R) : R[k] # {} /\ Max(R[k]) = Max(col)}
         IN  IF same = {} THEN col
             ELSE ReduceColumn(SymDiff(col, R[CHOOSE k \in same : TRUE]), R)

RECURSIVE StandardReduction(_, _)
StandardReduction(S, j) ==
    IF j = 0 THEN <<>>
    ELSE LET R == StandardReduction(S, j - 1)
         IN  Append(R, ReduceColumn(boundary_of(S, j), R))

\* the (dimension, birth, death) triples of the reference pairing of (S, L),
\* one per pair (low(j), j) and one per unpaired zero column, tagged with the
\* position that is born so that equal values stay apart
ReferenceTriples(S, L) ==
    LET R == StandardReduction(S, Len(S))
        Lows == {Max(R[j]) : j \in {k \in 1..Len(S) : R[k] # {}}}
    IN  {<<Max(R[j]), dim(S[Max(R[j])]), L[Max(R[j])], L[j]>> :
            j \in {k \in 1..Len(S) : R[k] # {}}}
        \cup
        {<<j, dim(S[j]), L[j], INFINITY>> :
            j \in {k \in 1..Len(S) : R[k] = {} /\ k \notin Lows}}

\* C4: on a complex with the closure property whose faces precede their
\* cofaces, each bucket holds, as a multiset of (birth, death) values, what
\* the standard column reduction of the full boundary matrix pairs in that
\* dimension.
C4_MatchesStandardReduction ==
    (pc = "done" /\ IsFiltered(simplices)) =>
        LET ref == ReferenceTriples(simplices, levels)
        IN  \A d \in Dims :
              \A b \in Range(levels) : \A e \in Range(levels) \cup {INFINITY} :
                 CountIn(d, LAMBDA iv : iv.birth = b /\ iv.death = e)
                 = Cardinality({r \in ref : r[2] = d /\ r[3] = b /\ r[4] = e})

\* a finished pass over a filled triangle: a 1-cycle is born and killed
C4_Witness ==
    /\ pc = "done"
    /\ IsFiltered(simplices)
    /\ 2 \in Dims
    /\ Len(intervals[1]) = 1
    /\ NumFinite = 3

\* the (birth, death) values of bucket d of result iv, counted
ValueCount(iv, d, b, e) ==
    IF d \in DOMAIN iv
    THEN Cardinality({k \in 1..Len(iv[d]) : iv[d][k].birth = b /\ iv[d][k].death = e})
    ELSE 0

\* C5: two orders of the same filtered complex that differ in the order of
\* two neighbours of equal level, both with every face before its cofaces,
\* give the same multiset of (birth, death) values in every bucket.  Every
\* filtered order of the bounds starts a run, and any two such orders of one
\* complex are joined by exchanges of equal-level neighbours, so the
\* single exchange covers all pairs of orders (up to the numbering of the
\* vertices, which the engine does not read).
C5_TieBreakInvariance ==
    (/\ pc = "done"
     /\ call = 2
     /\ IsFiltered(simplices)
     /\ IsFiltered(first[1].simplices)
     /\ Range(simplices) = Range(first[1].simplices)) =>
        /\ DOMAIN intervals = DOMAIN first[1].intervals
        /\ \A d \in Dims :
             \A b \in Range(levels) : \A e \in Range(levels) \cup {INFINITY} :
                ValueCount(intervals, d, b, e) = ValueCount(first[1].intervals, d, b, e)

\* both runs are over, the second on another order of the same filtered
\* complex, and the chains reported differ although the values agree
C5_Witness ==
    /\ pc = "done"
    /\ call = 2
    /\ IsFiltered(simplices)
    /\ IsFiltered(first[1].simplices)
    /\ simplices # first[1].simplices
    /\ NumFinite >= 2
    /\ \E d \in Dims : \E k \in 1..Len(intervals[d]) :
          /\ k <= Len(first[1].intervals[d])
          /\ first[1].simplices[CHOOSE p \in first[1].intervals[d][k].birth_chain :
                \A q \in first[1].intervals[d][k].birth_chain : q <= p]
             # simplices[CHOOSE p \in intervals[d][k].birth_chain :
                \A q \in intervals[d][k].birth_chain : q <= p]

\* C6: a second call on the same complex returns the same buckets with the
\* same intervals in the same order and with the same chains, whatever the
\* order in which the hash sets of the two calls are iterated.
C6_Determinism ==
    (/\ pc = "done"
     /\ call = 2
     /\ simplices = first[1].simplices
     /\ levels = first[1].levels) =>
        intervals = first[1].intervals

\* a second call that went through an elimination has returned
C6_Witness ==
    /\ pc = "done"
    /\ call = 2
    /\ simplices = first[1].simplices
    /\ \E p \in 1..Len(table) : Cardinality(table[p].chain) > 1
    /\ NumFinite >= 1

\* C7: the persistence computation on a complex without simplices does not
\* abort (and returns no interval in any dimension).
C7_EmptyComplexReturns ==
    Len(simplices) = 0 => (pc # "panicked" /\ \A d \in Dims : intervals[d] = <<>>)

\* S[p] has a codimension-1 face that the index map does not hold
HasAbsentFace(S, p) ==
    \E v \in Range(S[p]) : Len(S[p]) > 1 /\ index_of(S, Retain(S[p], v)) = None

\* boundary(p) has been evaluated by the pass
Evaluated(p) ==
    \/ pc \in {"collect", "done"} /\ p <= Len(table)
    \/ pc \in {"reduce", "store"} /\ p <= sx
    \/ pc = "loop" /\ p < sx

\* C8: once the boundary of a simplex with an absent codimension-1 face has
\* been evaluated, the computation is aborted: it does not go on with the
\* face dropped and it produces no interval.
C8_AbsentFaceAborts ==
    \A p \in 1..Len(simplices) :
        (Evaluated(p) /\ HasAbsentFace(simplices, p)) =>
            (pc = "panicked" /\ NumFinite + NumInfinite = 0)

\* the simplices a chain of positions stands for
ChainSimplices(c) == {simplices[p] : p \in c}

\* C9: the accumulated chain of a simplex holds the simplex itself, and each
\* elimination of a pivot adds the accumulated chain of that pivot's killer
\* to it; a finite interval reports the accumulated chain of the pivot as
\* its birth chain and that of the killing simplex as its death chain, so the
\* pivot is in the birth chain and the killer in the death chain.
C9_GeneratingChains ==
    /\ [](\A p \in 1..Len(table) : p \in table[p].chain)
    /\ [](\A b \in Claimed : \A i \in 1..Len(table) :
            (table[b].parent = Some(i) /\ Evaluated(i) /\ pc # "store") =>
                \E k \in 1..Len(intervals[dim(simplices[b])]) :
                    LET iv == intervals[dim(simplices[b])][k]
                    IN  /\ iv.birth_chain = table[b].chain
                        /\ iv.death_chain = Some(table[i].chain)
                        /\ b \in iv.birth_chain
                        /\ i \in iv.death_chain[1]
                        /\ iv.birth = levels[b]
                        /\ iv.death = levels[i])
    /\ [][(pc = "reduce" /\ pc' = "reduce") =>
            \E m \in Claimed : \E i \in 1..Len(table) :
                /\ m = Max(boundary)
                /\ table[m].parent = Some(i)
                /\ table'[sx].chain = table[sx].chain \cup table[i].chain
                /\ \A q \in 1..Len(table) : q # sx => table'[q].chain = table[q].chain
         ]_vars

\* a finite interval whose birth chain gathered the chains of two killers
C9_Witness ==
    /\ pc = "done"
    /\ \E d \in Dims : \E k \in 1..Len(intervals[d]) :
          /\ Finite(intervals[d][k])
          /\ Cardinality(intervals[d][k].birth_chain) = 3

UnitSquare == <<(<<0, 0>>), (<<1, 0>>), (<<1, 1>>), (<<0, 1>>)>>

Values(d) == [k \in 1..Len(intervals[d]) |-> <<intervals[d][k].birth, intervals[d][k].death>>]

\* C10 (levels held as squares: 1 for 1, 2 for sqrt 2): the corners of the
\* unit square with max_dimension 2 and threshold 10 give, in dimension 0,
\* three intervals (0, 1) killed in this order by [0,1], [0,3], [1,2] and born
\* at [1], [3], [2], then an infinite one born at [0]; in dimension 1 two
\* intervals (sqrt 2, sqrt 2) and one (1, sqrt 2); in dimension 2 one
\* infinite interval born at sqrt 2.
C10_UnitSquare ==
    (/\ pc = "done"
     /\ points = UnitSquare
     /\ max_dimension = 2
     /\ threshold = 100) =>
        /\ Dims = 0..2
        /\ Values(0) = <<(<<0, 1>>), (<<0, 1>>), (<<0, 1>>), (<<0, INFINITY>>)>>
        /\ [k \in 1..3 |-> ChainSimplices(intervals[0][k].death_chain[1])]
              = <<{(<<0, 1>>)}, {(<<0, 3>>)}, {(<<1, 2>>)}>>
        /\ [k \in 1..4 |-> ChainSimplices(intervals[0][k].birth_chain)]
              = <<{(<<1>>)}, {(<<3>>)}, {(<<2>>)}, {(<<0>>)}>>
        /\ \A k \in 1..3 :
              /\ simplices[Max(intervals[0][k].death_chain[1])]
                    = (<<(<<0, 1>>), (<<0, 3>>), (<<1, 2>>)>>)[k]
              /\ table[index_of(simplices, (<<(<<1>>), (<<3>>), (<<2>>)>>)[k])[1]].co_bounds
                    = boundary_of(simplices,
                         index_of(simplices, (<<(<<0, 1>>), (<<0, 3>>), (<<1, 2>>)>>)[k])[1])
        /\ Len(intervals[1]) = 3
        /\ ValueCount(intervals, 1, 2, 2) = 2
        /\ ValueCount(intervals, 1, 1, 2) = 1
        /\ Values(2) = <<(<<2, INFINITY>>)>>

\* the pass over the Vietoris-Rips complex of the unit square has returned
C10_Witness ==
    /\ pc = "done"
    /\ points = UnitSquare
    /\ max_dimension = 2
    /\ threshold = 100
    /\ Len(simplices) = 14

\* the vertex sets of the codimension-1 faces of simplex s
FaceSets(s) == IF Len(s) <= 1 THEN {} ELSE {Range(s) \ {v} : v \in Range(s)}

\* no simplex is held twice
IsDistinct(S) == \A p, q \in 1..Len(S) : p # q => S[p] # S[q]

\* C12: in every complex vietoris_rips_complex returns, every face got by
\* deleting one vertex of a simplex of dimension >= 1 is in the complex and
\* found by index_of, so the boundary of the simplex has dim + 1 elements.
C12_BoundaryClosure ==
    pc = "idle" =>
        \A p \in 1..Len(simplices) :
            dim(simplices[p]) >= 1 =>
                /\ \A f \in FaceSets(simplices[p]) :
                      \E q \in 1..Len(simplices) : Range(simplices[q]) = f
                /\ \A v \in Range(simplices[p]) :
                      index_of(simplices, Retain(simplices[p], v)) # None
                /\ Cardinality(boundary_of(simplices, p)) = dim(simplices[p]) + 1

\* vietoris_rips_complex has returned a complex with a triangle although
\* the threshold kept some pair of points apart
C12_Witness ==
    /\ pc = "idle"
    /\ \E p \in 1..Len(simplices) : dim(simplices[p]) = 2
    /\ \E a, b \in 0..(Len(points) - 1) :
          a < b /\ index_of(simplices, <<a, b>>) = None

\* C13: vietoris_rips_complex returns InvalidDimension exactly when
\* max_dimension >= number of points, then without building a complex; for
\* max_dimension < number of points it never returns InvalidDimension.
C13_InvalidDimension ==
    pc # "cloud" =>
        /\ (err = Some("InvalidDimension")) <=> (max_dimension >= Len(points))
        /\ (max_dimension >= Len(points)) =>
              (pc = "failed" /\ simplices = <<>> /\ levels = <<>>)
        /\ (max_dimension < Len(points)) => (err = None /\ pc # "failed")

\* the call with max_dimension equal to the number of points has failed
C13_Witness ==
    /\ pc = "failed"
    /\ Len(points) >= 2
    /\ max_dimension = Len(points)
    /\ err = Some("InvalidDimension")

\* C14: the boundary the pass evaluates for a simplex consists of positions of its
\* codimension-1 faces, one position for every such face the complex holds
\* (all the positions of such faces when no simplex is held twice), and is
\* empty for a 0-simplex.
C14_Boundary ==
    \A p \in 1..Len(simplices) :
      Evaluated(p) =>
        LET B == boundary_of(simplices, p)
            F == FaceSets(simplices[p])
        IN  /\ \A q \in B : Range(simplices[q]) \in F
            /\ \A f \in F :
                  (\E q \in 1..Len(simplices) : Range(simplices[q]) = f) =>
                      Cardinality({q \in B : Range(simplices[q]) = f}) = 1
            /\ IsDistinct(simplices) =>
                  B = {q \in 1..Len(simplices) : Range(simplices[q]) \in F}
            /\ dim(simplices[p]) = 0 => B = {}

\* the pass has evaluated the boundary of a triangle whose edges are all held
C14_Witness ==
    /\ pc = "reduce"
    /\ dim(simplices[sx]) = 2
    /\ Cardinality(boundary_of(simplices, sx)) = 3

\* the (simplex, level) pairs of level l, in the order of the lists
PairsAtLevel(S, L, l) == SelectSeq(Zip(S, L), LAMBDA x : x[2] = l)

\* C15: SimplicialComplex::new returns the pairs it was handed, every
\* simplex with its level, in non-decreasing order of level, and the pairs
\* of one level in the order they were handed in; the triangle of Scenario A
\* comes out as [0],[1],[2],[0,1],[1,2],[0,2],[0,1,2] with levels
\* 0,0,0,1,2,sqrt5,sqrt5 (held as 0,0,0,1,4,5,5).
C15_StableSort ==
    pc \in {"built", "looked"} =>
        /\ Len(simplices) = Len(arg_simplices)
        /\ Len(levels) = Len(simplices)
        /\ \A a, b \in 1..Len(levels) : a < b => levels[a] <= levels[b]
        /\ \A l \in Range(arg_levels) \cup Range(levels) :
              PairsAtLevel(simplices, levels, l) = PairsAtLevel(arg_simplices, arg_levels, l)
        /\ (arg_simplices = TriangleSimplices /\ arg_levels = TriangleLevels) =>
              /\ simplices = <<(<<0>>), (<<1>>), (<<2>>), (<<0, 1>>), (<<1, 2>>),
                               (<<0, 2>>), (<<0, 1, 2>>)>>
              /\ levels = <<0, 0, 0, 1, 4, 5, 5>>

\* the triangle of Scenario A has been built: the sort moved a pair and
\* met two ties
C15_Witness ==
    /\ pc = "built"
    /\ arg_simplices = TriangleSimplices
    /\ simplices # arg_simplices
    /\ Len(simplices) = 7

\* C16 as claimed: for every accepted complex and every position i, the
\* lookup of the vertices of simplices[i], in any order, returns i.
C16_IndexRoundTrip ==
    pc = "looked" => found[1].index = Some(found[1].position)

\* C16 as amended: the lookup returns the last position that holds a simplex
\* equal to simplices[i], whatever the order of the vertices handed to
\* Simplex::new; that is i when the complex holds no other copy of it.
C16_IndexLastPosition ==
    pc = "looked" =>
        LET f == found[1]
            same == {q \in 1..Len(simplices) : Range(simplices[q]) = Range(f.vertices)}
        IN  /\ f.position \in same
            /\ f.index # None
            /\ f.index[1] \in same
            /\ \A q \in same : q <= f.index[1]
            /\ same = {f.position} => f.index = Some(f.position)

\* a lookup with the vertices out of order has found the simplex where it is
C16_Witness ==
    /\ pc = "looked"
    /\ Len(simplices) >= 2
    /\ found[1].vertices # simplices[found[1].position]
    /\ found[1].index = Some(found[1].position)

\* a value of type Simplex that validate rejects
Malformed(s) == Len(s) = 0 \/ Cardinality(Range(s)) < Len(s)

IndexTuples(n, k) ==
    {t \in [1..k -> 0..(n - 1)] : \A a, b \in 1..k : a < b => t[a] < t[b]}

\* s comes before t in lexicographic order (both of the same length)
LexLess(s, t) ==
    \E k \in 1..Len(s) : s[k] < t[k] /\ \A j \in 1..(k - 1) : s[j] = t[j]

\* the limbs of the reference count: 128 bits, where no product of the
\* requests checked here is cut
WideLimbs == 2 * WordLimbs

\* the binomial coefficient C(n, k) in WideLimbs limbs, along row n:
\* C(n, j) = C(n, j - 1) * (n - j + 1) / j, exactly
RECURSIVE RowCount(_, _, _, _)
RowCount(acc, j, n, k) ==
    IF j > k THEN acc
    ELSE LET nxt == DivLimbs(MulLimbs(acc, n - j + 1, 0), j, WideLimbs, 0)
         IN IF Len(nxt) = 0 THEN nxt ELSE RowCount(nxt, j + 1, n, k)

Binomial(n, k) == RowCount([i \in 1..WideLimbs |-> IF i = 1 THEN 1 ELSE 0], 1, n, k)

\* limb sequences of any two lengths that stand for the same number
SameNumber(a, b) ==
    \A k \in 1..(Len(a) + Len(b)) :
        (IF k <= Len(a) THEN a[k] ELSE 0) = (IF k <= Len(b) THEN b[k] ELSE 0)

\* C18: generate_subsets returns, for every input, every subset of size 0
\* up to min(max_size, n) once and nothing else: the empty subset first,
\* sizes never decreasing, C(n, k) subsets of each size k; 26 subsets for
\* five elements and max_size 3
C18_AllSubsets ==
    pc = "returned" =>
        LET n == Len(arg_elements)
            top == Min2(arg_max_size, n)
            count(k) == Cardinality({i \in 1..Len(all_subsets) : Len(all_subsets[i]) = k})
        IN /\ Len(all_subsets) >= 1
           /\ all_subsets[1] = <<>>
           /\ \A k \in 0..top : SameNumber(Limbs(count(k)), Binomial(n, k))
           /\ \A i \in 1..Len(all_subsets) :
                /\ Len(all_subsets[i]) <= top
                /\ \E t \in IndexTuples(n, Len(all_subsets[i])) :
                      all_subsets[i] = Select(arg_elements, t)
           /\ \A i, j \in 1..Len(all_subsets) : all_subsets[i] = all_subsets[j] => i = j
           /\ \A i \in 1..(Len(all_subsets) - 1) :
                Len(all_subsets[i]) <= Len(all_subsets[i + 1])
           /\ n = 5 /\ arg_max_size = 3 => Len(all_subsets) = 26

\* the tuples after `indices` in lexicographic order
After(indices, n) == {t \in IndexTuples(n, Len(indices)) : LexLess(indices, t)}

\* C19: the iterator hands out strictly increasing position tuples, first
\* 0..size-1 and then each time the immediate lexicographic successor of the
\* one before; after the last of the C(n, size) tuples it returns None, and
\* None again on every later call; with size 0 it hands out one empty tuple
C19_Iterator ==
    /\ [](pc = "iter" =>
            /\ self_indices \in IndexTuples(Len(arg_elements), arg_size)
            /\ (item = None /\ ~self_is_first =>
                  SameNumber(Limbs(Len(collected)), Binomial(Len(arg_elements), arg_size)))
            /\ (item = None /\ ~self_is_first /\ arg_size = 0 => collected = << <<>> >>))
    /\ [][pc = "iter" /\ pc' = "iter" =>
            IF self_is_first
            THEN /\ self_indices = Vec([k \in 1..arg_size |-> k - 1])
                 /\ item' = Some(Select(arg_elements, self_indices))
                 /\ self_indices' = self_indices
            ELSE IF After(self_indices, Len(arg_elements)) # {}
            THEN /\ self_indices' \in After(self_indices, Len(arg_elements))
                 /\ \A t \in After(self_indices, Len(arg_elements)) :
                        t = self_indices' \/ LexLess(self_indices', t)
                 /\ item' = Some(Select(arg_elements, self_indices'))
                 /\ collected' = Append(collected, item'[1])
            ELSE /\ item' = None
                 /\ collected' = collected]_vars
    /\ [][pc = "iter" /\ polls >= 1 => item' = None /\ collected' = collected]_vars

\* C19 witness: all six pairs of four elements were handed out and None was
\* returned twice
C19_Witness ==
    /\ pc = "iter"
    /\ Len(arg_elements) = 4
    /\ arg_size = 2
    /\ Len(collected) = 6
    /\ item = None
    /\ polls = 2

\* C20: Combinations::new returns InvalidSize exactly when size > n,
\* TooLarge exactly when size <= n and C(n, size) is more than the limit,
\* and an iterator otherwise; 10 out of 100 elements are rejected
C20_GuardErrors ==
    pc \in {"iter", "rejected", "panicked"} =>
        LET n == Len(arg_elements)
            too_large == arg_size <= n /\ Exceeds(Binomial(n, arg_size), TooLargeLimit)
        IN /\ err = Some("InvalidSize") <=> arg_size > n
           /\ err = Some("TooLarge") <=> too_large
           /\ pc = "iter" <=> ~(arg_size > n) /\ ~too_large
           /\ n = 100 /\ arg_size = 10 => err = Some("TooLarge")

(* ------------------- claims on the Vietoris-Rips complex --------------- *)

\* the distance of two points of the cloud, as pairwise_distances holds it
Apart(i, j) == euclidean_distance(points[i], points[j])

\* `s`, a tuple of point indices, is one of the simplices of the complex
Holds(s) == \E p \in 1..Len(simplices) : simplices[p] = s

\* C11: the complex holds exactly the non-empty subsets of at most
\* max_dimension + 1 point indices whose points are pairwise within the
\* threshold, each once, at the level of its largest pairwise distance
\* (0 for a vertex); no such subset is omitted
C11_Exactness ==
    pc = "idle" =>
        LET n == Len(points)
            diameter(s) == Max({0} \cup {Apart(s[a] + 1, s[b] + 1) : a, b \in 1..Len(s)})
            within(s) == diameter(s) <= threshold
        IN /\ max_dimension >= 1 =>
                \A i \in 1..n : \A j \in (i + 1)..n :
                    Apart(i, j) <= threshold => Holds(<<i - 1, j - 1>>)
           /\ \A k \in 1..(max_dimension + 1) : \A s \in IndexTuples(n, k) :
                within(s) => Holds(s)
           /\ \A p \in 1..Len(simplices) :
                /\ simplices[p] \in IndexTuples(n, Len(simplices[p]))
                /\ Len(simplices[p]) \in 1..(max_dimension + 1)
                /\ within(simplices[p])
                /\ levels[p] = diameter(simplices[p])
                /\ \A q \in 1..Len(simplices) : simplices[q] = simplices[p] => q = p

(* ------------------------- claims on the size guard -------------------- *)

\* some size 1..top of an n-element population has more combinations than
\* the guard lets through
Oversized(n, top) == \E k \in 1..top : Exceeds(Binomial(n, k), TooLargeLimit)

\* C21: an oversized request is rejected before any enumeration: its result
\* holds no enumerated subset, so it is never the smaller sizes only
C21_FailFast ==
    pc = "returned" /\ Oversized(Len(arg_elements), Min2(arg_max_size, Len(arg_elements))) =>
        \A i \in 1..Len(all_subsets) : Len(all_subsets[i]) = 0

\* the remainder of the limbs k.. of `a` divided by i
RECURSIVE RemFrom(_, _, _)
RemFrom(a, i, k) ==
    IF k > Len(a) THEN 0
    ELSE (RemFrom(a, i, k + 1) * LimbBase + a[k]) % i

\* the product of step i of the fold for (len, size), as the machine holds
\* it: the steps before i are the whole fold for (len - size + i - 1, i - 1)
MachineProduct(len, size, i) ==
    SubSeq(MulLimbs(n_combinations(len - size + i - 1, i - 1).value, len - size + i, 0),
           1, WordLimbs)

\* C25: for every size <= len the fold of the guard gives C(len, size): no
\* product overflows, every division is exact, and no request of more than
\* the limit is accepted
C25_FoldExact ==
    pc \in {"iter", "rejected", "panicked"} /\ arg_size <= Len(arg_elements) =>
        LET len == Len(arg_elements)
            n == n_combinations(len, arg_size)
        IN /\ ~n.overflowed
           /\ SameNumber(n.value, Binomial(len, arg_size))
           /\ \A i \in 1..arg_size : RemFrom(MachineProduct(len, arg_size, i), i, 1) = 0
           /\ Exceeds(Binomial(len, arg_size), TooLargeLimit) => pc # "iter"

(* ------------- claims on PointCloud::new and pairwise_distances -------- *)

\* C22: pairwise_distances returns an n x n matrix with zeros on the
\* diagonal and, in cells [i, j] and [j, i] alike, the distance of points
\* i and j
C22_DistanceMatrix ==
    pc = "joined" =>
        LET n == Len(points)
        IN /\ n >= 1
           /\ Len(shared_matrix) = n
           /\ \A i \in 1..n : Len(shared_matrix[i]) = n
           /\ \A i \in 1..n : shared_matrix[i][i] = 0
           /\ \A i, j \in 1..n :
                i # j => /\ shared_matrix[i][j] = euclidean_distance(points[i], points[j])
                         /\ shared_matrix[j][i] = shared_matrix[i][j]
           /\ shared_matrix = pairwise_distances(points)

\* C22 witness: the matrix of three points with two different distances
C22_Witness ==
    /\ pc = "joined"
    /\ points = << <<0, 0>>, <<1, 0>>, <<1, 1>> >>
    /\ shared_matrix = << <<0, 1, 2>>, <<1, 0, 1>>, <<2, 1, 0>> >>

Smaller(a, b) == IF a <= b THEN a ELSE b

\* C23: every off-diagonal cell is written once, by the task of its smaller
\* index, and the diagonal never; the returned matrix depends on the points
\* only; every task takes the lock at most once and gives it back before it
\* ends; every task ends and the call returns
C23_ParallelWrites ==
    /\ [](pc \in {"par", "joined"} =>
            \A a, b \in 1..Len(points) :
                /\ a = b => writers[a][b] = <<>>
                /\ a # b => writers[a][b] \in {<<>>, <<Smaller(a, b)>>}
                /\ a # b /\ task[Smaller(a, b)] \in {"written", "finished"} =>
                      writers[a][b] = <<Smaller(a, b)>>)
    /\ [](pc = "joined" =>
            /\ \A a, b \in 1..Len(points) : a # b => Len(writers[a][b]) = 1
            /\ shared_matrix = pairwise_distances(points))
    /\ [](pc \in {"par", "joined"} =>
            \A i \in 1..Len(task) :
                /\ acquired[i] <= 1
                /\ mutex = Some(i) <=> task[i] \in {"locked", "written"}
                /\ task[i] = "finished" => acquired[i] = 1)
    /\ [][pc = "par" /\ shared_matrix' # shared_matrix =>
            mutex # None /\ task[mutex[1]] = "locked" /\ mutex' = mutex]_vars
    /\ (pc = "par" ~> pc = "joined")
    /\ [](pc = "joined" => \A i \in 1..Len(task) : task[i] = "finished")

\* C23 witness: three tasks are over, the second was the first to write
C23_Witness ==
    /\ pc = "joined"
    /\ Len(task) = 3
    /\ \A i \in 1..3 : task[i] = "finished" /\ acquired[i] = 1
    /\ writers[1][2] = <<1>>
    /\ writers[3][2] = <<2>>

\* C24: PointCloud::new fails with EmptyCloud on a matrix of no rows, and on
\* every matrix of at least one row and one column it stores the rows
\* unchanged: n_points = n, dim = d
C24_PointCloudNew ==
    pc # "new" =>
        /\ arg_matrix.nrows = 0 => err = Some("EmptyCloud") /\ points = <<>>
        /\ arg_matrix.nrows >= 1 /\ arg_matrix.ncols >= 1 =>
              /\ err = None
              /\ points = arg_matrix.rows
              /\ Len(points) = arg_matrix.nrows
              /\ \A i \in 1..Len(points) : Len(points[i]) = arg_matrix.ncols

\* C24 witness: the three points in the plane of test_point_cloud_creation
C24_Witness ==
    /\ pc = "cloud"
    /\ points = << <<0, 0>>, <<1, 0>>, <<1, 1>> >>
    /\ arg_matrix.nrows = 3
    /\ arg_matrix.ncols = 2

(* -------------------- claims on the order of the pass ------------------ *)

\* C26: the pass takes the simplices in index order and never re-sorts
\* them; every interval is appended at the end of its bucket, a finite one
\* in the step of its killing simplex, an infinite one in the step of its
\* birth simplex of the final loop over the table, which starts when the
\* pass is over: in each bucket the finite intervals come first, in the
\* order of their killers, then the infinite ones in the order of their
\* birth simplices
C26_OutputOrder ==
    /\ [][(pc \in {"loop", "reduce", "store", "collect"} =>
            /\ simplices' = simplices
            /\ levels' = levels
            /\ \/ sx' = sx
               \/ sx' = sx + 1 /\ pc \in {"store", "collect"}
               \/ sx' = 1 /\ pc = "loop" /\ pc' = "collect" /\ sx = Len(table) + 1)]_vars
    /\ [][(pc \in {"store", "collect"} /\ intervals' # intervals =>
            /\ sx' = sx + 1
            /\ \E d \in Dims :
                  /\ Len(intervals'[d]) = Len(intervals[d]) + 1
                  /\ SubSeq(intervals'[d], 1, Len(intervals[d])) = intervals[d]
                  /\ \A e \in Dims \ {d} : intervals'[e] = intervals[e]
                  /\ LET new == intervals'[d][Len(intervals'[d])]
                     IN  IF pc = "store"
                         THEN Finite(new) /\ new.death = levels[sx]
                         ELSE ~Finite(new) /\ new.birth = levels[sx])]_vars
    /\ [][(pc = "collect" => pc' \in {"collect", "done"})]_vars
    /\ [](pc \in {"loop", "reduce", "store"} =>
            \A d \in Dims : \A k \in 1..Len(intervals[d]) : Finite(intervals[d][k]))
    /\ [](pc \in {"collect", "done"} =>
            \A d \in Dims : \A j, k \in 1..Len(intervals[d]) :
                j < k /\ Finite(intervals[d][k]) => Finite(intervals[d][j]))

\* C26 witness: a bucket of two finite intervals, the one killed first in
\* front, and an infinite interval behind them
C26_Witness ==
    /\ pc = "done"
    /\ Len(intervals[0]) = 3
    /\ intervals[0][1].death = 0
    /\ intervals[0][2].death = 1
    /\ intervals[0][3].death = INFINITY

\* C27: a turn of the echelon loop removes m = max(B) from B and toggles
\* smaller indices only, so max(B) goes down; every call of the pass comes
\* to its end (at once, by the panic of C7, on the complex of no simplex)
C27_Termination ==
    /\ [][(pc = "reduce" /\ pc' = "reduce" /\ boundary' # boundary =>
            LET m == Max(boundary)
            IN  /\ m \notin boundary'
                /\ \A x \in (boundary' \ boundary) \cup (boundary \ boundary') : x <= m
                /\ boundary' # {} => Max(boundary') < m)]_vars
    /\ [][(pc = "reduce" /\ pc' = "reduce" => boundary' # boundary)]_vars
    /\ (pc = "idle" ~> pc \in {"done", "panicked"})
    /\ [](pc = "panicked" => simplices = <<>>)

\* C27 witness: a closed complex whose pass has ended with an edge that is
\* a cycle: its two vertices were taken out of its boundary by elimination
C27_Witness ==
    /\ pc = "done"
    /\ IsFiltered(simplices)
    /\ \E p \in 1..Len(simplices) : Len(simplices[p]) = 2 /\ table[p].is_marked

\* C28: at every step a stored co-boundary at entry m has m as its largest
\* element and holds marked entries only, m among them; it is stored at an
\* unclaimed entry and never changes afterwards
C28_TableInvariant ==
    /\ [](\A m \in 1..Len(table) :
            table[m].co_bounds # {} =>
                /\ Max(table[m].co_bounds) = m
                /\ \A x \in table[m].co_bounds : table[x].is_marked
                /\ table[m].is_marked)
    /\ [](pc = "store" /\ boundary # {} => table[Max(boundary)].co_bounds = {})
    /\ [][(\A m \in 1..Len(table) :
            table[m].co_bounds # {} => table'[m].co_bounds = table[m].co_bounds)]_vars
    /\ [](Cardinality(Claimed) = NumFinite)

\* C28 witness: a co-boundary of two entries is stored
C28_Witness ==
    /\ pc = "done"
    /\ \E m \in 1..Len(table) : Cardinality(table[m].co_bounds) = 2

\* a codimension-1 face of a simplex is listed after it
FaceAfterCoface(S) ==
    \E p, q \in 1..Len(S) : p < q /\ Len(S[p]) > 1 /\ \E v \in Range(S[p]) : S[q] = Retain(S[p], v)

\* C29: the reduced boundary holds indices before the simplex under work
\* only, so the pivot index of a finite interval is smaller than the killing
\* index and, the levels being non-decreasing, no interval has its birth
\* after its death; a face listed after a coface changes nothing to that
C29_BirthBeforeDeath ==
    /\ pc \in {"reduce", "store"} => \A x \in boundary : x < sx
    /\ \A d \in Dims : \A k \in 1..Len(intervals[d]) :
          intervals[d][k].birth <= intervals[d][k].death

\* C29 witness: a finite interval of different birth and death in a complex
\* that lists a face after its coface
C29_Witness ==
    /\ pc = "done"
    /\ FaceAfterCoface(simplices)
    /\ \E d \in Dims : \E k \in 1..Len(intervals[d]) :
          Finite(intervals[d][k]) /\ intervals[d][k].birth < intervals[d][k].death

\* C30: in the complex vietoris_rips_complex returns, every codimension-1
\* face of a simplex is held, at a level not above the simplex's and at a
\* smaller position, equal levels included
C30_FacesFirst ==
    pc = "idle" =>
        \A p \in 1..Len(simplices) : \A v \in Range(simplices[p]) :
            Len(simplices[p]) > 1 =>
                /\ \E q \in 1..Len(simplices) : simplices[q] = Retain(simplices[p], v)
                /\ \A q \in 1..Len(simplices) :
                      simplices[q] = Retain(simplices[p], v) => q < p /\ levels[q] <= levels[p]

\* C30 witness: a triangle at the level of its edges and vertices
C30_Witness ==
    /\ pc = "idle"
    /\ \E p \in 1..Len(simplices) : Len(simplices[p]) = 3 /\ levels[p] = 0

====
